---- MODULE Spec2Model ----
(***************************************************************************)
(* A model of benediction (src/src/lib.rs): the pixel-effect generators    *)
(* and the three stateful simulators Plasma, Blobs and Fire.               *)
(*                                                                         *)
(* Sequences are 1-based: entry i of a Rust slice is element i+1 here.     *)
(* f32 arithmetic has no counterpart in TLC.  The colour channels that the *)
(* stateless generators and Plasma compute with sin/cos are therefore not  *)
(* part of Spec; the two palette-index computations are modelled in exact  *)
(* rational arithmetic over the range of sin and cos (SpecIndex).          *)
(*                                                                         *)
(* Spec is the life of a Fire on small canvases, SpecSink one frame drawn  *)
(* by any render entry point, SpecNoFuel a Fire whose seeding never        *)
(* ignites, SpecU32 a Fire with Scalar arithmetic at its 32-bit width.     *)
(***************************************************************************)
EXTENDS Integers, Sequences, FiniteSets, TLC

VARIABLES
    fire,       \* Fire { palette, particles }
    blobs,      \* Blobs { palette } (the five Blob shapes are f32 parameters)
    op,         \* the call that produced this state and its arguments
    before,     \* fire.particles when that call started
    pass,       \* Fire::render's diffusion pass: input grid, output grid, accesses
    calls,      \* the sink invocations of the most recent render call, in order
    sized,      \* <<width, height>> of the last Fire::new / update / render
    panicked,   \* a slice index was out of bounds (or debug arithmetic overflowed)
    lookup,     \* the most recent palette-index computation (SpecIndex)
    ncalls,     \* number of calls made so far
    mach        \* Fire at the width of Scalar: grid length and fault (SpecU32)

vars == <<fire, blobs, op, before, pass, calls, sized, panicked, lookup, ncalls,
          mach>>

---------------------------------------------------------------------------
(* Bounds of the model.                                                    *)

MaxDim == 2

MaxCalls == 2

MaxSinkCalls == 1

MaxDimNoFuel == 5

SinScale == 2

MaxDimU32 == 3

Dims == 0..MaxDim

---------------------------------------------------------------------------
(* Integer helpers.                                                        *)

Abs(v) == IF v < 0 THEN -v ELSE v

Clamp(v, lo, hi) == IF v < lo THEN lo ELSE IF v > hi THEN hi ELSE v

Shr(v, k) == v \div (2 ^ k)

---------------------------------------------------------------------------
(* Pixel and the row-major cell loop shared by every render entry point.   *)

MkPixel(ch, fg, bg) == [ch |-> ch, fg |-> fg, bg |-> bg]

Rgb(c) == [tag |-> "Rgb", rgb |-> c]

\* a colour produced by Color::from_float; its channel values are f32 results
FromFloat == Rgb(<<>>)

RECURSIVE InnerLoop(_, _, _)
InnerLoop(x, y, width) ==
    IF x >= width THEN <<>>
    ELSE <<[x |-> x, y |-> y]>> \o InnerLoop(x + 1, y, width)

RECURSIVE OuterLoop(_, _, _)
OuterLoop(y, width, height) ==
    IF y >= height THEN <<>>
    ELSE InnerLoop(0, y, width) \o OuterLoop(y + 1, width, height)

RECURSIVE InnerLoopSwapped(_, _, _)
InnerLoopSwapped(y, x, height) ==
    IF y >= height THEN <<>>
    ELSE <<[x |-> x, y |-> y]>> \o InnerLoopSwapped(y + 1, x, height)

RECURSIVE OuterLoopSwapped(_, _, _)
OuterLoopSwapped(x, width, height) ==
    IF x >= width THEN <<>>
    ELSE InnerLoopSwapped(0, x, height) \o OuterLoopSwapped(x + 1, width, height)

\* the loops with x outer and y inner
CellsColumnMajor(width, height) == OuterLoopSwapped(0, width, height)

\* for y in 0..height { for x in 0..width { ... } }
Cells(width, height) == OuterLoop(0, width, height)

Put(cells, pixel) ==
    [k \in 1..Len(cells) |-> [x |-> cells[k].x, y |-> cells[k].y, pixel |-> pixel]]

---------------------------------------------------------------------------
(* Palette.                                                                *)

PaletteSize == 256

PaletteFillEnd == 255

NewPalette == [i \in 1..PaletteSize |-> <<0, 0, 0>>]

BlobsPaletteEntry(t) == <<t \div 8, t \div 2, t \div 2>>

FirePaletteEntry(t) == <<t, Shr(t, 2), Shr(t, 4)>>

\* for i in 0..255 { palette[i] = ... }
BlobsPalette ==
    [i \in 1..PaletteSize |->
        IF i - 1 < PaletteFillEnd THEN BlobsPaletteEntry(i - 1) ELSE NewPalette[i]]

FirePalette ==
    [i \in 1..PaletteSize |->
        IF i - 1 < PaletteFillEnd THEN FirePaletteEntry(i - 1) ELSE NewPalette[i]]

---------------------------------------------------------------------------
(* Fire: the diffusion grid.                                               *)

GridLen(width, height) == (width + 2) * (height + 2)

Zeros(n) == [i \in 1..n |-> 0]

\* Vec::resize(n, value)
Resize(v, n, value) == [i \in 1..n |-> IF i <= Len(v) THEN v[i] ELSE value]

\* slice::fill(value)
Fill(v, value) == [i \in 1..Len(v) |-> value]

FireNew(width, height) ==
    [palette |-> FirePalette, particles |-> Zeros(GridLen(width, height))]

\* resize without the fill(0) that follows it
FireUpdateNoFill(particles, width, height) ==
    Resize(particles, GridLen(width, height), 0)

FireUpdate(particles, width, height) ==
    Fill(Resize(particles, GridLen(width, height), 0), 0)

\* let offset = |x, y| y * width + x
Offset(x, y, width) == y * width + x

Neighbours(offset, width) ==
    <<offset + width - 1, offset + width, offset + width * 2, offset + width * 2 + 1>>

\* .iter().fold(0i16, |a, &t| a + (self.particles[t] as i16))
RECURSIVE Fold(_, _, _)
Fold(particles, ts, a) ==
    IF ts = <<>> THEN a
    ELSE Fold(particles, Tail(ts), a + particles[Head(ts) + 1])

\* cooling without the absolute value: the clamp alone brings -2 to 0
CoolNoAbs(v) == Clamp(Shr(v, 2) - 2, 0, 255)

\* ((v >> 2) - 2).abs().clamp(0, 255) as u8
Cool(v) == Clamp(Abs(Shr(v, 2) - 2), 0, 255)

InBounds(particles, t) == t >= 0 /\ t < Len(particles)

\* One iteration of the diffusion loop body.  st = [g, ok, log]: the grid,
\* whether every index so far was in bounds, and the accesses made.
DiffuseCell(st, c, width) ==
    LET offset == Offset(c.x, c.y, width)
        ts     == Neighbours(offset, width)
    IN  IF \E k \in 1..Len(ts) : ~InBounds(st.g, ts[k]) \/ ~InBounds(st.g, offset)
        THEN [st EXCEPT !.ok = FALSE]
        ELSE [g   |-> [st.g EXCEPT ![offset + 1] = Cool(Fold(st.g, ts, 0))],
              ok  |-> TRUE,
              log |-> Append(st.log, [at |-> offset, reads |-> ts])]

\* The loops below bind each intermediate grid with s \in {e}, so that it
\* is computed once before the next iteration reads it.
RECURSIVE DiffuseLoop(_, _, _, _)
DiffuseLoop(st, k, cells, width) ==
    IF k > Len(cells) \/ ~st.ok THEN st
    ELSE CHOOSE r \in {DiffuseLoop(s, k + 1, cells, width) :
                          s \in {DiffuseCell(st, cells[k], width)}} : TRUE

RECURSIVE Reverse(_)
Reverse(s) == IF s = <<>> THEN <<>> ELSE Append(Reverse(Tail(s)), Head(s))

\* the diffusion pass walking the cells from the last to the first
DiffusePassBackwards(particles, width, height) ==
    CHOOSE r \in {DiffuseLoop([g |-> particles, ok |-> TRUE, log |-> <<>>],
                              1, cells, width) :
                     cells \in {Reverse(Cells(width, height))}} : TRUE

\* for y in 0..height { for x in 0..width { particles[offset] = ... } }
DiffusePass(particles, width, height) ==
    CHOOSE r \in {DiffuseLoop([g |-> particles, ok |-> TRUE, log |-> <<>>],
                              1, cells, width) :
                     cells \in {Cells(width, height)}} : TRUE

\* for x in 0..width { particles[offset(x, height)] = if rand > 0.7 {255} else {0} }
\* hot is the set of columns whose fastrand::f32() draw exceeds 0.7
RECURSIVE SeedLoop(_, _, _, _, _)
SeedLoop(st, x, width, height, hot) ==
    IF x >= width \/ ~st.ok THEN st
    ELSE IF ~InBounds(st.g, Offset(x, height, width))
         THEN [st EXCEPT !.ok = FALSE]
         ELSE CHOOSE r \in {SeedLoop(s, x + 1, width, height, hot) :
                 s \in {[st EXCEPT !.g[Offset(x, height, width) + 1] =
                                       IF x \in hot THEN 255 ELSE 0]}} : TRUE

SeedPass(st, width, height, hot) == SeedLoop(st, 0, width, height, hot)

EmitPixel(particles, palette, c, width) ==
    MkPixel(" ", "Default", Rgb(palette[particles[Offset(c.x, c.y, width) + 1] + 1]))

\* for y in 0..height { for x in 0..width { put(x, y, pixel) } }
EmitPass(particles, palette, width, height) ==
    CHOOSE r \in {[k \in 1..Len(cells) |->
                      [x |-> cells[k].x, y |-> cells[k].y,
                       pixel |-> EmitPixel(particles, palette, cells[k], width)]] :
                     cells \in {Cells(width, height)}} : TRUE

\* what a render call leaves: the grid, whether the call returned (ok),
\* whether it took the update branch, the diffusion pass and the sink
\* invocations
RenderResult(f, start, reset, diffused, seeded, width, height) ==
    [particles |-> seeded.g,
     ok        |-> seeded.ok,
     reset     |-> reset,
     pass      |-> [in |-> start, out |-> diffused.g, log |-> diffused.log],
     calls     |-> IF seeded.ok
                   THEN EmitPass(seeded.g, f.palette, width, height)
                   ELSE <<>>]

\* the passes that follow the diffusion pass
SeedAndEmit(f, start, reset, diffused, width, height, hot) ==
    CHOOSE r \in {RenderResult(f, start, reset, diffused, seeded, width, height) :
                     seeded \in {SeedPass(diffused, width, height, hot)}} : TRUE

\* the seeding pass run before the diffusion pass instead of after it
RenderFromSeedFirst(f, start, reset, width, height, hot) ==
    CHOOSE r \in {RenderResult(f, start, reset, diffused, diffused, width, height) :
                     diffused \in {DiffusePass(
                         SeedPass([g |-> start, ok |-> TRUE, log |-> <<>>],
                                  width, height, hot).g, width, height)}} : TRUE

\* the render call from the grid the diffusion pass starts on
RenderFrom(f, start, reset, width, height, hot) ==
    CHOOSE r \in {SeedAndEmit(f, start, reset, diffused, width, height, hot) :
                     diffused \in {DiffusePass(start, width, height)}} : TRUE

\* Fire::render
FireRender(f, width, height, hot) ==
    IF Len(f.particles) # GridLen(width, height)
    THEN RenderFrom(f, FireUpdate(f.particles, width, height), TRUE,
                    width, height, hot)
    ELSE RenderFrom(f, f.particles, FALSE, width, height, hot)

---------------------------------------------------------------------------
(* Scalar = u32 and usize arithmetic.  A number is the sequence of its     *)
(* base-256 digits, least significant first, so that every value of the    *)
(* type is representable.  Each operation returns the wrapped value v and  *)
(* whether the exact result left the type (over).                          *)

ScalarLimbs == 4

UsizeLimbs == 8

RECURSIVE FromNat(_, _)
FromNat(n, limbs) ==
    IF limbs = 0 THEN <<>> ELSE <<n % 256>> \o FromNat(n \div 256, limbs - 1)

RECURSIVE CarryAt(_, _)
CarryAt(cols, i) ==
    IF i = 0 THEN 0 ELSE (cols[i] + CarryAt(cols, i - 1)) \div 256

Digit(cols, i) == (cols[i] + CarryAt(cols, i - 1)) % 256

\* a + b
Add(a, b) ==
    LET cols == [i \in 1..Len(a) |-> a[i] + b[i]]
    IN  [v    |-> [i \in 1..Len(a) |-> Digit(cols, i)],
         over |-> CarryAt(cols, Len(a)) > 0]

RECURSIVE ColSum(_, _, _, _)
ColSum(a, b, k, i) ==
    IF i > Len(a) THEN 0
    ELSE (IF k + 1 - i \in 1..Len(b) THEN a[i] * b[k + 1 - i] ELSE 0)
         + ColSum(a, b, k, i + 1)

\* a * b
Mul(a, b) ==
    LET cols == [k \in 1..(2 * Len(a)) |-> ColSum(a, b, k, 1)]
    IN  [v    |-> [i \in 1..Len(a) |-> Digit(cols, i)],
         over |-> \E k \in (Len(a) + 1)..(2 * Len(a)) : Digit(cols, k) # 0]

\* a - 1
Dec(a) ==
    IF \A i \in 1..Len(a) : a[i] = 0
    THEN [v |-> [i \in 1..Len(a) |-> 255], over |-> TRUE]
    ELSE LET low == CHOOSE i \in 1..Len(a) :
                        a[i] # 0 /\ \A j \in 1..(i - 1) : a[j] = 0
         IN  [v    |-> [i \in 1..Len(a) |->
                           IF i < low THEN 255
                           ELSE IF i = low THEN a[i] - 1 ELSE a[i]],
              over |-> FALSE]

\* a < b
Less(a, b) ==
    \E i \in 1..Len(a) :
        a[i] < b[i] /\ \A j \in (i + 1)..Len(a) : a[j] = b[j]

\* v as usize
AsUsize(a) == a \o [i \in 1..(UsizeLimbs - Len(a)) |-> 0]

Scalar(n) == FromNat(n, ScalarLimbs)

\* ((width + 2) * (height + 2)) as usize
GridLenScalar(width, height) ==
    LET w2 == Add(width, Scalar(2))
        h2 == Add(height, Scalar(2))
        m  == Mul(w2.v, h2.v)
    IN  [v |-> AsUsize(m.v), over |-> w2.over \/ h2.over \/ m.over]

\* let offset = |x, y| y * width + x;  ... as usize
OffsetScalar(x, y, width) ==
    LET m == Mul(y, width)
        o == Add(m.v, x)
    IN  [v |-> AsUsize(o.v), over |-> m.over \/ o.over]

---------------------------------------------------------------------------
(* The calls.  Every call records its name and arguments in op.            *)

NoPass == [in |-> <<>>, out |-> <<>>, log |-> <<>>]

NoMach == [build |-> "none", len |-> FromNat(0, UsizeLimbs), fault |-> "none",
           op |-> "none", w |-> Scalar(0), h |-> Scalar(0), reset |-> FALSE]

NoLookup == [gen |-> "none", nan |-> FALSE, raw |-> 0, index |-> 0]

Call(name, width, height) ==
    [name |-> name, w |-> width, h |-> height, hot |-> {}, reset |-> FALSE,
     prev |-> sized]

\* what a render entry point that owns no grid leaves behind
Stateless(name, width, height, pixel) ==
    /\ ~panicked
    /\ ncalls < MaxSinkCalls
    /\ op' = Call(name, width, height)
    /\ calls' = Put(Cells(width, height), pixel)
    /\ before' = fire.particles
    /\ pass' = NoPass
    /\ ncalls' = ncalls + 1
    /\ UNCHANGED <<fire, blobs, sized, panicked, lookup, mach>>

VerticalWave(width, height) ==
    Stateless("vertical_wave", width, height, MkPixel(" ", "Default", FromFloat))

HorizontalWave(width, height) ==
    Stateless("horizontal_wave", width, height, MkPixel(" ", "Default", FromFloat))

Pulse(width, height) ==
    Stateless("pulse", width, height, MkPixel(" ", "Default", FromFloat))

Spiral(width, height) ==
    Stateless("spiral", width, height, MkPixel("glyph", FromFloat, "Transparent"))

Checkerboard(width, height) ==
    Stateless("checkerboard", width, height, MkPixel(" ", "Default", FromFloat))

\* Plasma::render and Blobs::render keep no state the model follows: the
\* palette entry each cell shows is decided by f32 arithmetic (SpecIndex).
PlasmaRender(width, height) ==
    Stateless("Plasma::render", width, height, MkPixel(" ", "Default", Rgb(<<>>)))

BlobsRender(width, height) ==
    Stateless("Blobs::render", width, height, MkPixel(" ", "Default", Rgb(<<>>)))

FireNewCall(width, height) ==
    /\ ~panicked
    /\ ncalls < MaxCalls
    /\ fire' = FireNew(width, height)
    /\ op' = Call("Fire::new", width, height)
    /\ before' = fire.particles
    /\ sized' = <<width, height>>
    /\ calls' = <<>>
    /\ pass' = NoPass
    /\ ncalls' = ncalls + 1
    /\ UNCHANGED <<blobs, panicked, lookup, mach>>

FireUpdateCall(width, height) ==
    /\ ~panicked
    /\ ncalls < MaxCalls
    /\ fire' = [fire EXCEPT !.particles = FireUpdate(fire.particles, width, height)]
    /\ op' = Call("Fire::update", width, height)
    /\ before' = fire.particles
    /\ sized' = <<width, height>>
    /\ calls' = <<>>
    /\ pass' = NoPass
    /\ ncalls' = ncalls + 1
    /\ UNCHANGED <<blobs, panicked, lookup, mach>>

\* the state a Fire::render call leaves behind
Rendered(width, height, hot) ==
    \E r \in {FireRender(fire, width, height, hot)} :
        /\ fire' = [fire EXCEPT !.particles = r.particles]
        /\ op' = [Call("Fire::render", width, height) EXCEPT
                    !.hot = hot, !.reset = r.reset]
        /\ before' = fire.particles
        /\ sized' = <<width, height>>
        /\ calls' = r.calls
        /\ pass' = r.pass
        /\ panicked' = ~r.ok
        /\ UNCHANGED <<blobs, lookup, mach>>

FireRenderCall(width, height, hot) ==
    /\ ~panicked
    /\ ncalls < MaxCalls
    /\ Rendered(width, height, hot)
    /\ ncalls' = ncalls + 1

\* Fire::new and Blobs::new, before any other call
Constructed(width, height, m) ==
    /\ fire = FireNew(width, height)
    /\ blobs = [palette |-> BlobsPalette]
    /\ op = [name |-> "Fire::new", w |-> width, h |-> height, hot |-> {},
             reset |-> FALSE, prev |-> <<width, height>>]
    /\ before = <<>>
    /\ pass = NoPass
    /\ calls = <<>>
    /\ sized = <<width, height>>
    /\ panicked = FALSE
    /\ lookup = NoLookup
    /\ ncalls = 0
    /\ mach = m

Init == \E width \in Dims, height \in Dims : Constructed(width, height, NoMach)

\* Fire::render as one of the eight entry points a frame may be drawn with
FireRenderEntry(width, height, hot) ==
    /\ ~panicked
    /\ ncalls < MaxSinkCalls
    /\ Rendered(width, height, hot)
    /\ ncalls' = ncalls + 1

\* the life of a Fire: construction, resizes and frames
Next ==
    \E width \in Dims, height \in Dims :
        \/ FireNewCall(width, height)
        \/ FireUpdateCall(width, height)
        \/ \E hot \in SUBSET (0..(width - 1)) : FireRenderCall(width, height, hot)

Spec == Init /\ [][Next]_vars

\* one frame drawn with any of the render entry points
NextSink ==
    \E width \in Dims, height \in Dims :
        \/ VerticalWave(width, height)
        \/ HorizontalWave(width, height)
        \/ Pulse(width, height)
        \/ Spiral(width, height)
        \/ Checkerboard(width, height)
        \/ PlasmaRender(width, height)
        \/ BlobsRender(width, height)
        \/ \E hot \in SUBSET (0..(width - 1)) : FireRenderEntry(width, height, hot)

SpecSink == Init /\ [][NextSink]_vars

---------------------------------------------------------------------------
(* Fire with the seeding draw never above 0.7: a fixed canvas, one frame   *)
(* after the other.                                                        *)

InitNoFuel ==
    \E width \in 1..MaxDimNoFuel, height \in 1..MaxDimNoFuel :
        Constructed(width, height, NoMach)

NoFuelFrame ==
    /\ ~panicked
    /\ Rendered(sized[1], sized[2], {})
    /\ UNCHANGED ncalls

\* the caller draws a frame on every tick
SpecNoFuel == InitNoFuel /\ [][NoFuelFrame]_vars /\ WF_vars(NoFuelFrame)

---------------------------------------------------------------------------
(* The palette index of Plasma::render and Blobs::render.  A sinusoid term *)
(* is t / SinScale with t in -SinScale..SinScale; the product of the blob  *)
(* distances is a non-negative number s.  Arithmetic is exact.             *)

\* f32 `as usize` / `as u8` of an integral value below the type's maximum
\* f as usize: NaN and negative values give 0
AsUnsigned(nan, v) == IF nan \/ v < 0 THEN 0 ELSE v

\* f as u8: NaN and negative values give 0, values above 255 give 255
AsU8(nan, v) == IF nan \/ v < 0 THEN 0 ELSE IF v > 255 THEN 255 ELSE v

\* ((v / 6.0 + 0.5) * 255.0).floor() for v = (t1 + t2 + t3) / SinScale
PlasmaV(t1, t2, t3) == (255 * ((t1 + t2 + t3) + 3 * SinScale)) \div (6 * SinScale)

\* v as usize
PlasmaIndex(nan, t1, t2, t3) == AsUnsigned(nan, PlasmaV(t1, t2, t3))

BlobScale == 100000

\* (width as f32 * 2.0 - (s / 1e5)).floor()
BlobsTheta(width, s) == width * 2 + ((-s) \div BlobScale)

\* theta as usize with no clamp and no u8 before it
BlobsIndexNoClamp(nan, width, s) == AsUnsigned(nan, BlobsTheta(width, s))

\* theta.clamp(0.0, 255.0) as u8 as usize
BlobsIndex(nan, width, s) == AsU8(nan, Clamp(BlobsTheta(width, s), 0, 255))

SinTerms == (-SinScale)..SinScale

BlobWidths == {0, 1, MaxDim, 127, 128, 200}

BlobProducts == {0, 1, 99999, 100000, 100001, 300000, 25500000, 40000000}

\* self.palette[index]: the slice index panics at PaletteSize and above;
\* nan says that dt, and with it the computed intensity, is NaN
Lookup(gen, nan, raw, index) ==
    /\ ~panicked
    /\ lookup' = [gen |-> gen, nan |-> nan, raw |-> raw, index |-> index]
    /\ panicked' = ~(index < PaletteSize)
    /\ UNCHANGED <<fire, blobs, op, before, pass, calls, sized, ncalls, mach>>

PlasmaLookup(nan, t1, t2, t3) ==
    Lookup("Plasma", nan, PlasmaV(t1, t2, t3), PlasmaIndex(nan, t1, t2, t3))

BlobsLookup(nan, width, s) ==
    Lookup("Blobs", nan, BlobsTheta(width, s), BlobsIndex(nan, width, s))

NextIndex ==
    \E nan \in BOOLEAN :
        \/ \E t1 \in SinTerms, t2 \in SinTerms, t3 \in SinTerms :
               PlasmaLookup(nan, t1, t2, t3)
        \/ \E width \in BlobWidths, s \in BlobProducts : BlobsLookup(nan, width, s)

SpecIndex == Init /\ [][NextIndex]_vars

---------------------------------------------------------------------------
(* Fire at the width of Scalar.  Only the length of the grid matters for   *)
(* the question whether an index is inside it, so the grid is its length.  *)
(* A debug build panics where u32 or usize arithmetic overflows, a release *)
(* build wraps; a slice index at or beyond the length panics in both.      *)

Builds == {"debug", "release"}

\* the widths whose width + 2 leaves u32
WideWidths == {<<254, 255, 255, 255>>, <<255, 255, 255, 255>>}

WidthsU32 == {Scalar(n) : n \in 0..MaxDimU32} \cup WideWidths

HeightsU32 == {Scalar(n) : n \in 0..MaxDimU32}

Overflow(build, over) == IF over /\ build = "debug" THEN "overflow" ELSE "none"

\* self.particles[t]
Index(t, len) == IF Less(t, len) THEN "none" ELSE "index"

RECURSIVE FirstFault(_)
FirstFault(fs) ==
    IF fs = <<>> THEN "none"
    ELSE IF Head(fs) # "none" THEN Head(fs) ELSE FirstFault(Tail(fs))

\* one cell of the diffusion pass: the four reads, then the write
DiffuseFault(x, y, width, len, build) ==
    LET offset == OffsetScalar(x, y, width)
        w   == AsUsize(width)
        b   == Add(offset.v, w)
        a   == Dec(b.v)
        w2  == Mul(w, FromNat(2, UsizeLimbs))
        c   == Add(offset.v, w2.v)
        d   == Add(c.v, FromNat(1, UsizeLimbs))
    IN  FirstFault(<<Overflow(build, offset.over),
                     Overflow(build, b.over \/ a.over \/ w2.over \/ c.over \/ d.over),
                     Index(a.v, len), Index(b.v, len), Index(c.v, len),
                     Index(d.v, len), Index(offset.v, len)>>)

\* self.particles[offset(x, y) as usize] of the seeding and the emit pass
CellFault(x, y, width, len, build) ==
    LET offset == OffsetScalar(x, y, width)
    IN  FirstFault(<<Overflow(build, offset.over), Index(offset.v, len)>>)

\* for y in 0..height { for x in 0..width { ... } } of the diffusion pass,
\* up to the first panic
RECURSIVE DiffusePassFault(_, _, _, _, _, _)
DiffusePassFault(x, y, width, height, len, build) ==
    IF ~Less(Scalar(y), height) THEN "none"
    ELSE IF ~Less(Scalar(x), width)
         THEN DiffusePassFault(0, y + 1, width, height, len, build)
         ELSE IF DiffuseFault(Scalar(x), Scalar(y), width, len, build) # "none"
              THEN DiffuseFault(Scalar(x), Scalar(y), width, len, build)
              ELSE DiffusePassFault(x + 1, y, width, height, len, build)

\* for x in 0..width { self.particles[offset(x, height)] = ... }
RECURSIVE SeedPassFault(_, _, _, _, _)
SeedPassFault(x, width, height, len, build) ==
    IF ~Less(Scalar(x), width) THEN "none"
    ELSE IF CellFault(Scalar(x), height, width, len, build) # "none"
         THEN CellFault(Scalar(x), height, width, len, build)
         ELSE SeedPassFault(x + 1, width, height, len, build)

\* for y in 0..height { for x in 0..width { ... } } of the emit pass
RECURSIVE EmitPassFault(_, _, _, _, _, _)
EmitPassFault(x, y, width, height, len, build) ==
    IF ~Less(Scalar(y), height) THEN "none"
    ELSE IF ~Less(Scalar(x), width)
         THEN EmitPassFault(0, y + 1, width, height, len, build)
         ELSE IF CellFault(Scalar(x), Scalar(y), width, len, build) # "none"
              THEN CellFault(Scalar(x), Scalar(y), width, len, build)
              ELSE EmitPassFault(x + 1, y, width, height, len, build)

\* the three passes of Fire::render on a grid of length len
RenderFault(width, height, len, build) ==
    IF DiffusePassFault(0, 0, width, height, len, build) # "none"
    THEN DiffusePassFault(0, 0, width, height, len, build)
    ELSE IF SeedPassFault(0, width, height, len, build) # "none"
         THEN SeedPassFault(0, width, height, len, build)
         ELSE EmitPassFault(0, 0, width, height, len, build)

\* vec![0; n] and resize(n, 0): the length becomes n unless computing n panics
Sized(m, name, width, height) ==
    LET n == GridLenScalar(width, height)
    IN  [build |-> m.build,
         len   |-> IF Overflow(m.build, n.over) = "none" THEN n.v ELSE m.len,
         fault |-> Overflow(m.build, n.over),
         op    |-> name,
         w     |-> width,
         h     |-> height,
         reset |-> TRUE]

\* Fire::render: the length check, update on a mismatch, then the passes
RenderedU32(m, width, height) ==
    LET n == GridLenScalar(width, height)
    IN  IF Overflow(m.build, n.over) # "none"
        THEN [m EXCEPT !.fault = "overflow", !.op = "Fire::render",
                       !.w = width, !.h = height, !.reset = FALSE]
        ELSE [build |-> m.build,
              len   |-> n.v,
              fault |-> RenderFault(width, height, n.v, m.build),
              op    |-> "Fire::render",
              w     |-> width,
              h     |-> height,
              reset |-> m.len # n.v]

InitU32 ==
    \E build \in Builds, width \in WidthsU32, height \in HeightsU32 :
        Constructed(0, 0, Sized([NoMach EXCEPT !.build = build],
                                "Fire::new", width, height))

FireNewU32(width, height) ==
    /\ mach.fault = "none"
    /\ mach' = Sized(mach, "Fire::new", width, height)
    /\ UNCHANGED <<fire, blobs, op, before, pass, calls, sized, panicked, lookup, ncalls>>

FireUpdateU32(width, height) ==
    /\ mach.fault = "none"
    /\ mach' = Sized(mach, "Fire::update", width, height)
    /\ UNCHANGED <<fire, blobs, op, before, pass, calls, sized, panicked, lookup, ncalls>>

FireRenderU32(width, height) ==
    /\ mach.fault = "none"
    /\ mach' = RenderedU32(mach, width, height)
    /\ UNCHANGED <<fire, blobs, op, before, pass, calls, sized, panicked, lookup, ncalls>>

NextU32 ==
    \E width \in WidthsU32, height \in HeightsU32 :
        \/ FireNewU32(width, height)
        \/ FireUpdateU32(width, height)
        \/ FireRenderU32(width, height)

SpecU32 == InitU32 /\ [][NextU32]_vars

---------------------------------------------------------------------------
(* Properties.                                                             *)

RenderNames ==
    {"vertical_wave", "horizontal_wave", "pulse", "spiral", "checkerboard",
     "Plasma::render", "Blobs::render", "Fire::render"}

\* the stored intensity of the cell at column cx, row cy of a grid whose
\* rows are width cells long
At(g, cx, cy, width) == g[cy * width + cx + 1]

\* C1: a render call returns having invoked the sink width*height times,
\* the k-th invocation (counting from 0) at x = k mod width, y = k div width:
\* every cell once, rows ascending, columns ascending within a row.
C1_RowMajorSink ==
    op.name \in RenderNames =>
        /\ ~panicked
        /\ Len(calls) = op.w * op.h
        /\ \A k \in 1..Len(calls) :
              /\ calls[k].x = (k - 1) % op.w
              /\ calls[k].y = (k - 1) \div op.w

C1_Witness ==
    /\ op.name = "Fire::render"
    /\ op.w >= 2
    /\ op.h >= 2
    /\ Len(calls) = op.w * op.h

\* C2: a Fire::render call whose width/height differ from the ones the grid
\* was last sized for runs its diffusion pass on a zero-filled grid of
\* (width+2)*(height+2) cells.
C2_SelfHeal ==
    (op.name = "Fire::render" /\ op.prev # <<op.w, op.h>>) =>
        pass.in = Zeros((op.w + 2) * (op.h + 2))

\* C3: right after Fire::new(w,h) or Fire::update(w,h) the grid has
\* (w+2)*(h+2) cells and every cell is 0.
C3_ResetGrid ==
    op.name \in {"Fire::new", "Fire::update"} =>
        /\ Len(fire.particles) = (op.w + 2) * (op.h + 2)
        /\ \A i \in 1..Len(fire.particles) : fire.particles[i] = 0

C3_Witness ==
    /\ op.name = "Fire::update"
    /\ Len(before) # Len(fire.particles)
    /\ \E i \in 1..Len(before) : before[i] # 0

SyncDiffusion(g, width, height) ==
    [i \in 1..Len(g) |->
        IF i - 1 < width * height
        THEN Cool(Fold(g, Neighbours(i - 1, width), 0))
        ELSE g[i]]

\* C9: every index the diffusion pass reads for a cell is at or after the
\* cell's own index and was not written earlier in the pass, and the grid
\* the pass leaves equals the synchronous update of the grid it started on.
C9_InPlaceIsSynchronous ==
    op.name = "Fire::render" =>
        /\ \A k \in 1..Len(pass.log) : \A j \in 1..Len(pass.log[k].reads) :
              /\ pass.log[k].reads[j] >= pass.log[k].at
              /\ \A i \in 1..(k - 1) : pass.log[i].at # pass.log[k].reads[j]
        /\ pass.out = SyncDiffusion(pass.in, op.w, op.h)

C9_Witness ==
    /\ op.name = "Fire::render"
    /\ pass.out # pass.in
    /\ \E k \in 1..Len(pass.log) : \E j \in 1..Len(pass.log[k].reads) :
          /\ pass.log[k].reads[j] < op.w * op.h
          /\ pass.in[pass.log[k].reads[j] + 1] # pass.out[pass.log[k].reads[j] + 1]

\* C10: the pixels a Fire::render call emits are those it would emit on the
\* same grid with any other outcome of the random draws.
C10_FrameIgnoresSeeds ==
    op.name = "Fire::render" =>
        \A hot \in SUBSET (0..(op.w - 1)) :
            FireRender([fire EXCEPT !.particles = before], op.w, op.h, hot).calls
                = calls

C10_Witness ==
    /\ op.name = "Fire::render"
    /\ op.hot # {}
    /\ op.h >= 1
    /\ \E k \in 1..Len(calls) : calls[k].pixel.bg.rgb[1] > 2

\* C8: entry i of the Blobs palette is [i/8, i/2, i/2] and entry i of the
\* Fire palette is [i, i>>2, i>>4], for every i in 0..=255.
C8_PaletteClosedForm ==
    \A i \in 0..255 :
        /\ blobs.palette[i + 1] = <<i \div 8, i \div 2, i \div 2>>
        /\ fire.palette[i + 1] = <<i, i \div 4, i \div 16>>


\* C5: the index Plasma::render and Blobs::render look the palette up with
\* is in 0..255, and the lookup does not panic.
C5_IndexInPalette ==
    lookup.gen # "none" => (lookup.index \in 0..255 /\ ~panicked)

C5_Witness ==
    /\ lookup.gen = "Blobs"
    /\ ~lookup.nan
    /\ lookup.raw > 255
    /\ lookup.index = 255

\* C6 as stated: on every canvas of at least 1x1 cells the zero-fuel grid
\* eventually stops changing from one frame to the next.
C6_Converges == <>[][fire' = fire]_vars

\* C4: no Fire operation fails: whatever the widths and heights of the
\* calls, no arithmetic of a call panics and every grid index it reads or
\* writes is below the length of the grid.
C4_NoFireOperationFails == mach.fault = "none"

====
